---- MODULE Spec2Model ----
(***************************************************************************)
(* A model of src/main.py: the voice receptionist's call session bridge.   *)
(*                                                                         *)
(*   - the Availability Planner (GoogleIntegration.                        *)
(*     check_calendar_availability) as a pure operator;                    *)
(*   - the Tool Dispatcher (CallSession.handle_tool_call) with its         *)
(*     collaborators (log_lead, book_appointment, send_sms);               *)
(*   - the media_stream handler, its two relay loops, its teardown, and    *)
(*     delayed_cleanup, over the process-wide active_sessions map.         *)
(*                                                                         *)
(* asyncio runs one task at a time and switches tasks only at an await     *)
(* that really suspends, so every action below is the code between two     *)
(* suspension points.  The Google client calls (gspread, googleapiclient)  *)
(* are synchronous calls inside "async def" bodies: they never suspend,    *)
(* and are part of the action that makes them.                             *)
(***************************************************************************)
EXTENDS Integers, Sequences, FiniteSets, TLC

(***************************************************************************)
(* Bounds of the model.                                                    *)
(***************************************************************************)
MaxBooked == 2        \* events in an arbitrary calendar answer

(***************************************************************************)
(* Program constants.                                                      *)
(***************************************************************************)
OpenHour == 9
CloseHour == 20
SlotMinutes == 60
MaxSlots == 5
DefaultDuration == 60

None == "None"        \* Python's None

VARIABLES
    pIn,        \* the planner call being made: its arguments and the calendar's answer
    pOut,       \* what the planner call returned (None before it returns)
    pPc,        \* "call" before the planner call, "done" after, "idle" when none is made
    cfg,        \* google_integration: which services _init_services built
    callers,    \* the call identifiers the telephony side uses
    menu,       \* the argument values the AI transport draws its invocations from
    budget,     \* what the environment may still do: requests, streams, frames, events
    active_sessions,  \* the registry: call identifier -> session object (0: no entry)
    sess,       \* the CallSession objects ever constructed, in order of construction
    hist,       \* per session object, what was done on its behalf (history)
    handles,    \* the AI-transport connections ever opened, in order of opening
    stream,     \* the media_stream invocations: position, locals, the two loops
    cleanups,   \* call identifier -> delayed_cleanup tasks still sleeping
    audioSent   \* number of input_audio_buffer.append events sent to the AI transport

plannerVars == <<pIn, pOut, pPc>>

sessionVars ==
    <<cfg, callers, menu, budget, active_sessions, sess, hist, handles, stream, cleanups,
      audioSent>>

vars ==
    <<pIn, pOut, pPc, cfg, callers, menu, budget, active_sessions, sess, hist, handles,
      stream, cleanups, audioSent>>

(***************************************************************************)
(* The Availability Planner.                                               *)
(***************************************************************************)
Digit == <<"0", "1", "2", "3", "4", "5", "6", "7", "8", "9">>

TwoDigits(n) == Digit[(n \div 10) + 1] \o Digit[(n % 10) + 1]

Hour12(h) == IF h % 12 = 0 THEN 12 ELSE h % 12

Meridiem(h) == IF h < 12 THEN "AM" ELSE "PM"

\* datetime.strftime("%I:%M %p") of a time of day, t minutes after midnight
Strftime12(t) ==
    TwoDigits(Hour12(t \div 60)) \o ":" \o TwoDigits(t % 60) \o " " \o Meridiem(t \div 60)

\* the literal the code returns when the calendar cannot be asked
FallbackSlots == <<"10:00 AM", "2:00 PM", "4:00 PM">>

Abs(n) == IF n < 0 THEN -n ELSE n

\* the events of the answer that carry a dateTime (an all-day event carries a date)
BookedSlots(events) == {e \in events : e.kind = "timed"}

\* a faulty variant: any booked start closer than the duration rejects
IsAvailableByDistance(booked, hour, duration) ==
    ~ \E b \in booked : Abs((b.hour * 60 + b.minute) - hour * 60) < duration

\* is_available of one candidate, current = hour:00
IsAvailable(booked, hour, duration) ==
    ~ \E b \in booked : b.hour = hour /\ Abs(b.minute - 0) < duration

RECURSIVE AvailableFrom(_, _, _)
\* the while loop: current runs from `current` to `end` in steps of one slot
AvailableFrom(current, booked, duration) ==
    IF ~(current < CloseHour * 60) THEN <<>>
    ELSE (IF IsAvailable(booked, current \div 60, duration)
          THEN <<Strftime12(current)>> ELSE <<>>)
         \o AvailableFrom(current + SlotMinutes, booked, duration)

\* a faulty variant: the list is not cut
TopSlotsAll(available) == available

\* available[:5]
TopSlots(available) == SubSeq(available, 1, IF Len(available) < MaxSlots THEN Len(available) ELSE MaxSlots)

\* the body of the try block: [raised |-> TRUE] when a statement of it raises
PlannerTry(in) ==
    IF ~in.configured THEN [raised |-> FALSE, value |-> FallbackSlots]
    ELSE IF in.date = "not-a-date" THEN [raised |-> TRUE, value |-> <<>>]
    ELSE IF in.query = "raises" THEN [raised |-> TRUE, value |-> <<>>]
    ELSE [raised |-> FALSE,
          value |-> TopSlots(AvailableFrom(OpenHour * 60, BookedSlots(in.events), in.duration))]

\* a faulty variant: no except clause
check_calendar_availability_noexcept(in) == PlannerTry(in)

\* the whole method: the except clause turns every exception into the fallback
check_calendar_availability(in) ==
    IF PlannerTry(in).raised THEN [raised |-> FALSE, value |-> FallbackSlots]
    ELSE PlannerTry(in)

(***************************************************************************)
(* The planner's inputs.                                                   *)
(***************************************************************************)
BookedHours == {8, 9, 10, 13, 19, 20}
BookedMinutes == {0, 30, 59}
Durations == {0, 30, 60, 90}

TimedEvent(h, m) == [kind |-> "timed", hour |-> h, minute |-> m]
AllDayEvent == [kind |-> "allday", hour |-> 0, minute |-> 0]

EventUniverse ==
    {TimedEvent(h, m) : h \in BookedHours, m \in BookedMinutes} \cup {AllDayEvent}

\* a day booked every hour from `lo` on, at minute m
BusyDay(lo, m) == {TimedEvent(h, m) : h \in lo..CloseHour}

CalendarAnswers ==
    {E \in SUBSET EventUniverse : Cardinality(E) <= MaxBooked}
    \cup {BusyDay(lo, m) : lo \in OpenHour..CloseHour, m \in {0, 30}}

PlannerInputs ==
    [configured : BOOLEAN,
     date : {"2025-06-10", "not-a-date"},
     query : {"ok", "raises"},
     events : CalendarAnswers,
     duration : Durations]


(***************************************************************************)
(* base64, as the relay uses it: text is a sequence of characters, audio a *)
(* sequence of bytes.                                                      *)
(***************************************************************************)
\* a faulty variant: the URL-safe alphabet
B64AlphabetUrlSafe ==
    <<"A", "B", "C", "D", "E", "F", "G", "H", "I", "J", "K", "L", "M", "N", "O", "P",
      "Q", "R", "S", "T", "U", "V", "W", "X", "Y", "Z", "a", "b", "c", "d", "e", "f",
      "g", "h", "i", "j", "k", "l", "m", "n", "o", "p", "q", "r", "s", "t", "u", "v",
      "w", "x", "y", "z", "0", "1", "2", "3", "4", "5", "6", "7", "8", "9", "-", "_">>

\* the standard alphabet
B64Alphabet ==
    <<"A", "B", "C", "D", "E", "F", "G", "H", "I", "J", "K", "L", "M", "N", "O", "P",
      "Q", "R", "S", "T", "U", "V", "W", "X", "Y", "Z", "a", "b", "c", "d", "e", "f",
      "g", "h", "i", "j", "k", "l", "m", "n", "o", "p", "q", "r", "s", "t", "u", "v",
      "w", "x", "y", "z", "0", "1", "2", "3", "4", "5", "6", "7", "8", "9", "+", "/">>

\* the 6-bit value of each character of the alphabet
B64Index == [c \in {B64Alphabet[i] : i \in 1..64} |->
                (CHOOSE i \in 1..64 : B64Alphabet[i] = c) - 1]

\* a character of the alphabet; the decoder skips every other one but "="
B64IsData(c) == c \in DOMAIN B64Index

\* the characters of the alphabet among text[1..i-1]
B64DataBefore(text, i) == SelectSeq(SubSeq(text, 1, i - 1), B64IsData)

\* the "=" that follow the last character of the alphabet before position i
B64PadsBefore(text, i) ==
    Cardinality({j \in 1..(i - 1) :
                    /\ text[j] = "="
                    /\ \A k \in j..(i - 1) : ~B64IsData(text[k])})

\* the decoder stops at a "=" that completes the padding of a group of which
\* two or three characters were read, and reads nothing after it
B64StopsAt(text, i) ==
    /\ text[i] = "="
    /\ Len(B64DataBefore(text, i)) % 4 >= 2
    /\ (Len(B64DataBefore(text, i)) % 4) + B64PadsBefore(text, i) + 1 >= 4

\* the characters the decoder turns into bytes
B64Data(text) ==
    IF \E i \in 1..Len(text) : B64StopsAt(text, i)
    THEN B64DataBefore(text, CHOOSE i \in 1..Len(text) :
                                 /\ B64StopsAt(text, i)
                                 /\ \A j \in 1..(i - 1) : ~B64StopsAt(text, j))
    ELSE B64DataBefore(text, Len(text) + 1)

\* byte k of the characters d: every four characters give three bytes
B64Byte(d, k) ==
    LET b == 4 * ((k - 1) \div 3)
        r == (k - 1) % 3
    IN IF r = 0 THEN B64Index[d[b + 1]] * 4 + (B64Index[d[b + 2]] \div 16)
       ELSE IF r = 1 THEN (B64Index[d[b + 2]] % 16) * 16 + (B64Index[d[b + 3]] \div 4)
       ELSE (B64Index[d[b + 3]] % 4) * 64 + B64Index[d[b + 4]]

\* base64.b64decode(audio_payload): [ok |-> FALSE] when it raises, which it
\* does when the input ends inside a group without its padding
B64Decode(text) ==
    IF (Len(B64Data(text)) % 4 # 0) /\ ~ \E i \in 1..Len(text) : B64StopsAt(text, i)
    THEN [ok |-> FALSE, bytes |-> <<>>]
    ELSE [ok |-> TRUE,
          bytes |-> [k \in 1..((Len(B64Data(text)) * 3) \div 4) |->
                        B64Byte(B64Data(text), k)]]

\* character i of the encoding: every three bytes give four characters, and
\* "=" stands where the last group has no byte
B64Char(bytes, i) ==
    LET b == 3 * ((i - 1) \div 4)
        r == (i - 1) % 4
        b1 == bytes[b + 1]
        b2 == IF b + 2 <= Len(bytes) THEN bytes[b + 2] ELSE 0
        b3 == IF b + 3 <= Len(bytes) THEN bytes[b + 3] ELSE 0
    IN IF r = 0 THEN B64Alphabet[(b1 \div 4) + 1]
       ELSE IF r = 1 THEN B64Alphabet[(b1 % 4) * 16 + (b2 \div 16) + 1]
       ELSE IF r = 2
       THEN (IF b + 2 > Len(bytes) THEN "=" ELSE B64Alphabet[(b2 % 16) * 4 + (b3 \div 64) + 1])
       ELSE (IF b + 3 > Len(bytes) THEN "=" ELSE B64Alphabet[(b3 % 64) + 1])

\* base64.b64encode(audio_data).decode('utf-8')
B64Encode(bytes) == [i \in 1..(4 * ((Len(bytes) + 2) \div 3)) |-> B64Char(bytes, i)]
(***************************************************************************)
(* Sessions, the registry and the collaborators.                           *)
(***************************************************************************)
MaxStreams == 2       \* media_stream connections the telephony side opens
MaxSessions == 2      \* CallSession objects constructed
MaxFrames == 1        \* media frames the telephony side sends
MaxEvents == 2        \* events the AI transport sends
MaxRequests == 1      \* /incoming-call requests
MaxCalls == 3         \* tool invocations of one stream, where the dispatcher is examined

CallSids == {"CA1", "CA2"}

StreamIds == 1..MaxStreams

\* the From number of the call, echoed back as the stream's fromNumber
CallerPhone(c) == IF c = "CA1" THEN "+15145550000" ELSE "+15145550001"

\* Python's truth value of a str-or-None
Truthy(v) == v # None /\ v # ""

\* CallSession.__init__; ws is openai_handler.ws (0: None)
NewSession(call_sid) ==
    [call_sid |-> call_sid,
     lead_data |-> [name |-> None, phone |-> None, email |-> None, type |-> None,
                    area_interest |-> None, budget |-> None, timeline |-> None,
                    notes |-> <<>>],
     transfer_requested |-> FALSE,
     appointment_booked |-> FALSE,
     ws |-> 0]

\* what has been done on behalf of a session object; status is the session
\* state machine's state, moved by connect, teardown and cleanup
NewHist ==
    [status |-> "Created",
     streamed |-> FALSE,         \* it has been in Streaming
     finalizeRecords |-> 0,      \* finalize records handed to log_lead
     finalizeRecord |-> [kind |-> None],   \* the last of them
     closed |-> FALSE,           \* evicted by delayed_cleanup
     closedBooked |-> FALSE,     \* appointment_booked when it was evicted
     closedName |-> None,        \* lead_data["name"] when it was evicted
     noops |-> 0,                \* cleanup tasks that found it already evicted
     warmCalls |-> 0,            \* warm_transfer invocations dispatched
     transferRecords |-> 0]      \* transfer records handed to log_lead

NoTool == [op |-> None]

\* no function_call_output has been sent for the invocation in progress
NoOutput == [call_id |-> None]

NewStream ==
    [pc |-> "idle",              \* idle, connect, init, relay, finally, closing, done
     call_sid |-> None,
     sess |-> 0,                 \* the local `session` (0: None)
     ws |-> 0,                   \* the local `openai_ws` (0: unset)
     t2o |-> "-",                \* twilio_to_openai: run, done
     o2t |-> "-",                \* openai_to_twilio: recv, sms, store, out, cont, done
     tool |-> NoTool,            \* the tool invocation openai_to_twilio is in, and
                                 \* what handle_tool_call has done in it
     out |-> NoOutput,           \* the function_call_output sent for it
     fwd |-> 0,                  \* frames forwarded while that invocation was pending
     reattached |-> FALSE,       \* its session had left Streaming when it started
     tel |-> "open",             \* the telephony socket `websocket`: open, closed
     frame |-> [payload |-> <<>>, seq |-> 0],
                                 \* `data`: the last media frame twilio_to_openai read
     msg |-> [seq |-> 0],        \* `message`: the last event other than a tool
                                 \* invocation that openai_to_twilio read
     sent |-> <<>>,              \* the frames sent on the telephony socket
     transfer_twiml |-> None,    \* the local `transfer_twiml`
     logged |-> 0]               \* "Transfer requested" lines logged

NoLead == [kind |-> None]

Configurations == [calendar : BOOLEAN, sheets : BOOLEAN]

InitSession(cfgs, cs, m, b) ==
    /\ cfg \in cfgs
    /\ callers = cs
    /\ menu = m
    /\ budget = b
    /\ active_sessions = [c \in CallSids |-> 0]
    /\ sess = <<>>
    /\ hist = <<>>
    /\ handles = <<>>
    /\ stream = [s \in StreamIds |-> NewStream]
    /\ cleanups = [c \in CallSids |-> 0]
    /\ audioSent = 0

Spend(what) == [budget EXCEPT ![what] = @ - 1]

(***************************************************************************)
(* GoogleIntegration.log_lead: a best-effort write.  It appends the row,   *)
(* prints it (sheet not configured) or logs the error (the append raised); *)
(* it returns None and raises nothing in each case, so the caller's flow   *)
(* does not depend on which.  This is the record it is handed.             *)
(***************************************************************************)
LeadRecord(kind, name, phone, type) ==
    [kind |-> kind, name |-> name, phone |-> phone, type |-> type]

(***************************************************************************)
(* incoming_call: a new CallSession under the call identifier, replacing   *)
(* whatever entry was there.                                               *)
(***************************************************************************)
IncomingCall(c) ==
    /\ budget.requests > 0
    /\ Len(sess) < MaxSessions
    /\ sess' = Append(sess, [NewSession(c) EXCEPT !.lead_data.phone = CallerPhone(c)])
    /\ hist' = Append(hist, NewHist)
    /\ active_sessions' = [active_sessions EXCEPT ![c] = Len(sess) + 1]
    /\ budget' = Spend("requests")
    /\ UNCHANGED <<plannerVars, cfg, callers, menu, handles, stream, cleanups, audioSent>>

(***************************************************************************)
(* media_stream, to the first suspension after the first frame.            *)
(***************************************************************************)
\* streams are taken in order
NextStream(s) ==
    /\ stream[s].pc = "idle"
    /\ \A r \in StreamIds : r < s => stream[r].pc # "idle"
    /\ budget.streams > 0

\* the first frame is not a start frame, or receive_text raises: the handler
\* falls to its finally with session and call_sid both None, which does nothing
StreamNoStart(s) ==
    /\ NextStream(s)
    /\ stream' = [stream EXCEPT ![s].pc = "done"]
    /\ budget' = Spend("streams")
    /\ UNCHANGED <<plannerVars, cfg, callers, menu, active_sessions, sess, hist, handles, cleanups,
                   audioSent>>

\* a start frame for call c: get or create the session, then await connect()
StreamStart(s, c) ==
    /\ NextStream(s)
    /\ IF active_sessions[c] # 0
       THEN /\ stream' = [stream EXCEPT
                    ![s].pc = "connect", ![s].call_sid = c,
                    ![s].sess = active_sessions[c],
                    ![s].reattached = (hist[active_sessions[c]].status = "Finalizing"
                                      /\ hist[active_sessions[c]].streamed)]
            /\ UNCHANGED <<sess, hist, active_sessions>>
       ELSE /\ Len(sess) < MaxSessions
            /\ sess' = Append(sess, [NewSession(c) EXCEPT !.lead_data.phone = CallerPhone(c)])
            /\ hist' = Append(hist, NewHist)
            /\ active_sessions' = [active_sessions EXCEPT ![c] = Len(sess) + 1]
            /\ stream' = [stream EXCEPT
                    ![s].pc = "connect", ![s].call_sid = c, ![s].sess = Len(sess) + 1]
    /\ budget' = Spend("streams")
    /\ UNCHANGED <<plannerVars, cfg, callers, menu, handles, cleanups, audioSent>>

(***************************************************************************)
(* OpenAIRealtimeHandler.connect: websockets.connect, then session.update  *)
(* and the wait for its answer.                                            *)
(***************************************************************************)
\* websockets.connect raised: self.ws is not assigned
ConnectRefused(s) ==
    /\ stream[s].pc = "connect"
    /\ stream' = [stream EXCEPT ![s].pc = "finally"]
    /\ UNCHANGED <<plannerVars, cfg, callers, menu, budget, active_sessions, sess, hist, handles,
                   cleanups, audioSent>>

\* websockets.connect returned: self.ws is the new connection, whatever it was
ConnectOpened(s) ==
    /\ stream[s].pc = "connect"
    /\ handles' = Append(handles, [state |-> "open", closes |-> 0, owner |-> stream[s].sess,
                                    appended |-> <<>>])
    /\ sess' = [sess EXCEPT ![stream[s].sess].ws = Len(handles) + 1]
    /\ stream' = [stream EXCEPT ![s].pc = "init"]
    /\ UNCHANGED <<plannerVars, cfg, callers, menu, budget, active_sessions, hist, cleanups, audioSent>>

\* ws.send or ws.recv of the session initialisation raised
ConnectInitFailed(s) ==
    /\ stream[s].pc = "init"
    /\ stream' = [stream EXCEPT ![s].pc = "finally"]
    /\ UNCHANGED <<plannerVars, cfg, callers, menu, budget, active_sessions, sess, hist, handles,
                   cleanups, audioSent>>

\* connect() returned self.ws: openai_ws is bound and gather starts both loops
ConnectDone(s) ==
    /\ stream[s].pc = "init"
    /\ stream' = [stream EXCEPT ![s].pc = "relay", ![s].ws = sess[stream[s].sess].ws,
                                ![s].t2o = "run", ![s].o2t = "recv"]
    /\ hist' = [hist EXCEPT ![stream[s].sess].status = "Streaming",
                             ![stream[s].sess].streamed = TRUE]
    /\ UNCHANGED <<plannerVars, cfg, callers, menu, budget, active_sessions, sess, handles, cleanups,
                   audioSent>>

(***************************************************************************)
(* The collaborators the dispatcher calls.                                 *)
(***************************************************************************)
\* the outcomes GoogleIntegration.book_appointment can have under a configuration:
\*   mock      calendar_service is None: nothing is created, True is returned
\*   raises    strptime or events().insert raised: nothing was created
\*   inserted  the event was created (and the Appointments row appended, when
\*             the sheet is configured)
\*   row_raises  the event was created and appending the Appointments row raised
BookOutcomes(c) ==
    IF ~c.calendar THEN {"mock"}
    ELSE {"raises", "inserted"} \cup (IF c.sheets THEN {"row_raises"} ELSE {})

\* GoogleIntegration.book_appointment: what it returns, and how many calendar
\* events and Appointments rows it has created by then
book_appointment(outcome) ==
    [success |-> outcome \in {"mock", "inserted"},
     events |-> IF outcome \in {"inserted", "row_raises"} THEN 1 ELSE 0,
     rows |-> IF outcome = "inserted" /\ cfg.sheets THEN 1 ELSE 0]

\* the confirmation text handle_tool_call builds from the arguments
ConfirmationMessage(args) ==
    [kind |-> "confirmation", purpose |-> args.purpose, date |-> args.date,
     time |-> args.time, location |-> args.location]

\* a faulty variant: the confirmation is sent whatever was returned
SmsAlways(success, phone) == TRUE

\* whether handle_tool_call sends the confirmation after book_appointment
SmsAfterBooking(success, phone) == success /\ Truthy(phone)

\* a faulty variant: the flag follows the last booking
BookedLast(success, before) == success

\* appointment_booked after book_appointment returned `success`
BookedAfter(success, before) == IF success THEN TRUE ELSE before

(***************************************************************************)
(* The arguments the AI transport sends.                                   *)
(***************************************************************************)
\* every value an argument is drawn from; None is an absent argument
FullMenu ==
    [phones |-> {None, "", "+15145550000"},
     locations |-> {None, "123 Rue X"},
     names |-> {None, "", "J. Doe", "A. Roe"},
     leadPhones |-> {None, "+15145550009"},
     summaries |-> {"S1", "S2"},
     durations |-> {DefaultDuration, 30},
     calendars |-> {{}, {TimedEvent(9, 30)}},
     queries |-> {"ok", "raises"},
     payloads |-> {<<"Q", "U", "J", "D">>},
     deltas |-> {"QUJD"}]

\* one well-formed invocation of each kind
PlainMenu ==
    [phones |-> {"+15145550000"},
     locations |-> {"123 Rue X"},
     names |-> {"J. Doe"},
     leadPhones |-> {None},
     summaries |-> {"S1"},
     durations |-> {DefaultDuration},
     calendars |-> {{}},
     queries |-> {"ok"},
     payloads |-> {<<"Q", "U", "J", "D">>},
     deltas |-> {"QUJD"}]

\* the relay's traffic: media payloads that are an encoder's output ("QUJD",
\* "//8="), one that decodes but is no encoder's output ("QUJ="), one that
\* does not decode ("QUI"); audio deltas, empty and not
RelayMenu ==
    [PlainMenu EXCEPT
        !.payloads = {<<"Q", "U", "J", "D">>, <<"/", "/", "8", "=">>,
                      <<"Q", "U", "J", "=">>, <<"Q", "U", "I">>},
        !.deltas = {"", "QUJD", "QUI="}]

BookArgs ==
    [name : {"J. Doe"}, phone : menu.phones, date : {"2025-06-10"},
     time : {"10:00 AM"}, purpose : {"Property Viewing"}, location : menu.locations]

LeadArgs ==
    [name : menu.names, phone : menu.leadPhones, email : {None}, type : {"Buyer"},
     area_interest : {None}, budget : {None}, timeline : {None}]

LeadKeys == {"name", "phone", "email", "type", "area_interest", "budget", "timeline"}

WarmArgs == [reason : {"R1"}, context_summary : menu.summaries]

(***************************************************************************)
(* The relay loops.                                                        *)
(***************************************************************************)
Relaying(s) == stream[s].pc = "relay"

\* a faulty variant: one session object serves every stream
SessionShared(s) == 1

\* the `session` of media_stream that the loops of stream s close over
SessionOf(s) == stream[s].sess

\* a tool invocation is in progress in openai_to_twilio: handle_tool_call is
\* suspended in send_sms, or its result is not yet sent back
ToolPending(s) == Relaying(s) /\ stream[s].o2t \in {"sms", "out", "cont"}

\* a faulty variant: the relay handles one thing at a time
CanForwardSerialized(s) ==
    Relaying(s) /\ stream[s].t2o = "run" /\ budget.frames > 0 /\ ~ToolPending(s)

\* twilio_to_openai is waiting in receive_text and a frame can arrive
CanForward(s) == Relaying(s) /\ stream[s].t2o = "run" /\ budget.frames > 0

\* a media frame: b64decode its payload, which raises when it does not
\* decode, and send_audio the bytes on the session's current connection;
\* send_audio encodes them again, does nothing when there is no connection,
\* and a closed one raises; an exception ends the loop
T2OMedia(s) ==
    /\ CanForward(s)
    /\ budget' = Spend("frames")
    /\ \E audio_payload \in menu.payloads :
          LET h == sess[stream[s].sess].ws
              data == [payload |-> audio_payload, seq |-> budget.frames]
              audio_data == B64Decode(audio_payload)
          IN IF ~audio_data.ok
             THEN /\ stream' = [stream EXCEPT ![s].t2o = "done", ![s].frame = data]
                  /\ UNCHANGED <<handles, audioSent>>
             ELSE IF h = 0
             THEN /\ stream' = [stream EXCEPT ![s].frame = data]
                  /\ UNCHANGED <<handles, audioSent>>
             ELSE IF handles[h].state = "open"
             THEN /\ audioSent' = audioSent + 1
                  /\ handles' = [handles EXCEPT
                         ![h].appended = Append(@, B64Encode(audio_data.bytes))]
                  /\ stream' = [r \in StreamIds |->
                         IF r = s
                         THEN [stream[r] EXCEPT !.frame = data,
                                                !.fwd = IF ToolPending(r) THEN 1 ELSE @]
                         ELSE IF ToolPending(r) /\ stream[r].sess = stream[s].sess
                         THEN [stream[r] EXCEPT !.fwd = 1] ELSE stream[r]]
             ELSE /\ stream' = [stream EXCEPT ![s].t2o = "done", ![s].frame = data]
                  /\ UNCHANGED <<handles, audioSent>>
    /\ UNCHANGED <<plannerVars, cfg, callers, menu, active_sessions, sess, hist, cleanups>>

\* a stop frame, or receive_text raising (the telephony socket closed)
T2OStop(s) ==
    /\ Relaying(s)
    /\ stream[s].t2o = "run"
    /\ stream' = [stream EXCEPT ![s].t2o = "done"]
    /\ UNCHANGED <<plannerVars, cfg, callers, menu, budget, active_sessions, sess, hist, handles,
                   cleanups, audioSent>>

\* openai_to_twilio is waiting for the next event of its connection
Receiving(s) == Relaying(s) /\ stream[s].o2t = "recv"

CanReceive(s) ==
    Receiving(s) /\ handles[stream[s].ws].state = "open" /\ budget.events > 0

\* the AI transport closes the connection
AIClose(s) ==
    /\ Receiving(s)
    /\ handles[stream[s].ws].state = "open"
    /\ handles' = [handles EXCEPT ![stream[s].ws].state = "closed"]
    /\ UNCHANGED <<plannerVars, cfg, callers, menu, budget, active_sessions, sess, hist, stream,
                   cleanups, audioSent>>

\* the connection is closed: the async for ends
O2TEnd(s) ==
    /\ Receiving(s)
    /\ handles[stream[s].ws].state = "closed"
    /\ stream' = [stream EXCEPT ![s].o2t = "done"]
    /\ UNCHANGED <<plannerVars, cfg, callers, menu, budget, active_sessions, sess, hist, handles,
                   cleanups, audioSent>>

\* an event that is no tool invocation (response.audio.delta, response.done,
\* input_audio_buffer.speech_started, error, or a type no branch names), taken
\* for what it does to the session: nothing.  What the loop does with the
\* first four on the telephony side is in AIAudioDelta, AIResponseDone,
\* AISpeechStarted and AIError.
AIEventOther(s) ==
    /\ CanReceive(s)
    /\ budget' = Spend("events")
    /\ UNCHANGED <<plannerVars, cfg, callers, menu, active_sessions, sess, hist, handles, stream,
                   cleanups, audioSent>>

(***************************************************************************)
(* CallSession.handle_tool_call, on response.function_call_arguments.done. *)
(* stream[s].tool is the invocation openai_to_twilio is in: its arguments  *)
(* and what handle_tool_call has done so far (the notifier calls it made,  *)
(* the record it handed to log_lead, the flag before and after, what       *)
(* book_appointment created) and, once it has returned, its result.        *)
(***************************************************************************)
\* a faulty variant: a call no branch answers is reported as a failure
FailureResult == [kind |-> "failure", success |-> FALSE]

\* `result = None`, what handle_tool_call returns when no branch assigns it
NoResult == [kind |-> "None"]

\* call_id is the event's: events are told apart by how many were still to
\* come when they arrived
Invocation(op, o) ==
    [op |-> op, call_id |-> budget.events, obj |-> o, args |-> [kind |-> None], outcome |-> None,
     result |-> NoResult,
     sms |-> 0, msg |-> [kind |-> None], lead |-> NoLead,
     bookedBefore |-> sess[o].appointment_booked,
     bookedAfter |-> sess[o].appointment_booked,
     events |-> 0, rows |-> 0, asked |-> 0]

\* handle_tool_call returned: the loop goes on to send inv.result back
Returned(s, inv) ==
    [stream EXCEPT ![s].o2t = "out", ![s].tool = inv, ![s].fwd = 0]

\* handle_tool_call is suspended in send_sms
Suspended(s, inv) ==
    [stream EXCEPT ![s].o2t = "sms", ![s].tool = inv, ![s].fwd = 0]

\* json.loads of the arguments raises: the exception leaves handle_tool_call
\* and is caught by openai_to_twilio's except, which ends the loop
ToolMalformed(s) ==
    /\ CanReceive(s)
    /\ budget' = Spend("events")
    /\ stream' = [stream EXCEPT ![s].o2t = "done"]
    /\ UNCHANGED <<plannerVars, cfg, callers, menu, active_sessions, sess, hist, handles, cleanups,
                   audioSent>>

\* a name that is none of the six: result stays None
ToolUnknown(s) ==
    /\ CanReceive(s)
    /\ budget' = Spend("events")
    /\ stream' = Returned(s, Invocation("unknown", stream[s].sess))
    /\ UNCHANGED <<plannerVars, cfg, callers, menu, active_sessions, sess, hist, handles, cleanups,
                   audioSent>>

\* check_calendar_availability: the planner is called with the date alone,
\* whatever duration_minutes the invocation carries
ToolCheckAvailability(s) ==
    /\ CanReceive(s)
    /\ budget' = Spend("events")
    /\ \E q \in menu.queries, ev \in menu.calendars, d \in menu.durations :
          LET in == [configured |-> cfg.calendar, date |-> "2025-06-10", query |-> q,
                     events |-> ev, duration |-> DefaultDuration]
              slots == check_calendar_availability(in).value
          IN stream' = Returned(s,
                 [Invocation("check_calendar_availability", stream[s].sess) EXCEPT
                     !.args = [in EXCEPT !.duration = d], !.asked = d,
                     !.result = [kind |-> "slots", available_slots |-> slots,
                                 date |-> "2025-06-10"]])
    /\ UNCHANGED <<plannerVars, cfg, callers, menu, active_sessions, sess, hist, handles, cleanups,
                   audioSent>>

\* book_appointment: the booking, the flag, and the confirmation when it is
\* sent, in which case handle_tool_call is suspended in send_sms
ToolBookAppointment(s) ==
    /\ CanReceive(s)
    /\ budget' = Spend("events")
    /\ \E args \in BookArgs, outcome \in BookOutcomes(cfg) :
          LET o == SessionOf(s)
              booking == book_appointment(outcome)
              after == BookedAfter(booking.success, sess[o].appointment_booked)
              inv == [Invocation("book_appointment", o) EXCEPT
                         !.args = args, !.outcome = outcome, !.bookedAfter = after,
                         !.events = booking.events, !.rows = booking.rows,
                         !.result = [kind |-> "booking", success |-> booking.success,
                                     booking_details |-> args]]
          IN /\ sess' = [sess EXCEPT ![o].appointment_booked = after]
             /\ stream' =
                   IF SmsAfterBooking(booking.success, args.phone)
                   THEN Suspended(s, [inv EXCEPT !.sms = 1,
                                          !.msg = [to |-> args.phone,
                                                   body |-> ConfirmationMessage(args)]])
                   ELSE Returned(s, inv)
    /\ UNCHANGED <<plannerVars, cfg, callers, menu, active_sessions, hist, handles, cleanups, audioSent>>

\* a faulty variant: every supplied field is stored, empty or not
MergeLeadAll(lead_data, args) ==
    [k \in DOMAIN lead_data |-> IF k \in LeadKeys THEN args[k] ELSE lead_data[k]]

\* the merge of log_lead's arguments into lead_data
MergeLead(lead_data, args) ==
    [k \in DOMAIN lead_data |->
        IF k \in LeadKeys /\ Truthy(args[k]) THEN args[k] ELSE lead_data[k]]

\* log_lead
ToolLogLead(s) ==
    /\ CanReceive(s)
    /\ budget' = Spend("events")
    /\ \E args \in LeadArgs :
          LET o == SessionOf(s) IN
          /\ sess' = [sess EXCEPT ![o].lead_data = MergeLead(@, args)]
          /\ stream' = Returned(s,
                 [Invocation("log_lead", o) EXCEPT
                     !.args = args,
                     !.lead = LeadRecord("lead", args.name, args.phone, args.type),
                     !.result = [kind |-> "lead", success |-> TRUE,
                                 lead_id |-> sess[o].call_sid]])
    /\ UNCHANGED <<plannerVars, cfg, callers, menu, active_sessions, hist, handles, cleanups, audioSent>>

\* send_sms_confirmation: handle_tool_call is suspended in send_sms
ToolSendSms(s) ==
    /\ CanReceive(s)
    /\ budget' = Spend("events")
    /\ stream' = Suspended(s,
           [Invocation("send_sms_confirmation", stream[s].sess) EXCEPT
               !.args = [phone |-> "+15145550000", message |-> "M1"],
               !.sms = 1,
               !.msg = [to |-> "+15145550000", body |-> [kind |-> "M1"]]])
    /\ UNCHANGED <<plannerVars, cfg, callers, menu, active_sessions, sess, hist, handles, cleanups,
                   audioSent>>

\* a faulty variant: the summary is not the invocation's
TransferResultFixed(args) ==
    [kind |-> "transfer", status |-> "transfer_initiated",
     message |-> "Connecting you to Mark Esposito now. Please hold.",
     context |-> "S1"]

\* the result of warm_transfer
TransferResult(args) ==
    [kind |-> "transfer", status |-> "transfer_initiated",
     message |-> "Connecting you to Mark Esposito now. Please hold.",
     context |-> args.context_summary]

\* warm_transfer
ToolWarmTransfer(s) ==
    /\ CanReceive(s)
    /\ budget' = Spend("events")
    /\ \E args \in WarmArgs :
          LET o == SessionOf(s) IN
          /\ sess' = [sess EXCEPT ![o].transfer_requested = TRUE]
          /\ hist' = [hist EXCEPT ![o].warmCalls = @ + 1,
                                     ![o].transferRecords = @ + 1]
          /\ stream' = Returned(s,
                 [Invocation("warm_transfer", o) EXCEPT
                     !.args = args,
                     !.lead = LeadRecord("transfer", sess[o].lead_data.name,
                                         sess[o].lead_data.phone, sess[o].lead_data.type),
                     !.result = TransferResult(args)])
    /\ UNCHANGED <<plannerVars, cfg, callers, menu, active_sessions, handles, cleanups, audioSent>>

\* log_voicemail
ToolLogVoicemail(s) ==
    /\ CanReceive(s)
    /\ budget' = Spend("events")
    /\ stream' = Returned(s,
           [Invocation("log_voicemail", stream[s].sess) EXCEPT
               !.args = [caller_name |-> "A. Caller", caller_phone |-> "+15145550009",
                         message |-> "M2"],
               !.lead = LeadRecord("voicemail", "A. Caller", "+15145550009", "Voicemail"),
               !.result = [kind |-> "voicemail", success |-> TRUE,
                           callback_within |-> "2 hours"]])
    /\ UNCHANGED <<plannerVars, cfg, callers, menu, active_sessions, sess, hist, handles, cleanups,
                   audioSent>>

\* send_sms returns (True on 201, False otherwise; it raises nothing):
\* handle_tool_call resumes and returns
SmsDone(s) ==
    /\ Relaying(s)
    /\ stream[s].o2t = "sms"
    /\ \E sent \in BOOLEAN :
          stream' = [stream EXCEPT
              ![s].o2t = "out",
              ![s].tool.result = IF stream[s].tool.op = "book_appointment" THEN @
                                 ELSE [kind |-> "sms", success |-> sent]]
    /\ UNCHANGED <<plannerVars, cfg, callers, menu, budget, active_sessions, sess, hist, handles,
                   cleanups, audioSent>>

\* a faulty variant: the output does not name the invocation
FunctionOutputAnonymous(tool) == [call_id |-> 0, output |-> tool.result]

\* response_msg: the conversation.item.create item sent back for an invocation
FunctionOutput(tool) == [call_id |-> tool.call_id, output |-> tool.result]

\* openai_ws.send of the function_call_output, then of response.create; a
\* closed connection raises, which ends the loop
SendOutput(s) ==
    /\ Relaying(s)
    /\ stream[s].o2t = "out"
    /\ stream' = [stream EXCEPT
           ![s].o2t = IF handles[stream[s].ws].state = "open" THEN "cont" ELSE "done",
           ![s].out = IF handles[stream[s].ws].state = "open"
                      THEN FunctionOutput(stream[s].tool) ELSE NoOutput,
           ![s].tool = IF handles[stream[s].ws].state = "open" THEN @ ELSE NoTool]
    /\ UNCHANGED <<plannerVars, cfg, callers, menu, budget, active_sessions, sess, hist, handles,
                   cleanups, audioSent>>

SendContinue(s) ==
    /\ Relaying(s)
    /\ stream[s].o2t = "cont"
    /\ stream' = [stream EXCEPT
           ![s].o2t = IF handles[stream[s].ws].state = "open" THEN "recv" ELSE "done",
           ![s].tool = NoTool, ![s].out = NoOutput, ![s].fwd = 0]
    /\ UNCHANGED <<plannerVars, cfg, callers, menu, budget, active_sessions, sess, hist, handles,
                   cleanups, audioSent>>

(***************************************************************************)
(* media_stream's teardown and delayed_cleanup.                            *)
(***************************************************************************)
\* asyncio.gather returns once both loops have ended
RelayDone(s) ==
    /\ Relaying(s)
    /\ stream[s].t2o = "done"
    /\ stream[s].o2t = "done"
    /\ stream' = [stream EXCEPT ![s].pc = "finally"]
    /\ UNCHANGED <<plannerVars, cfg, callers, menu, budget, active_sessions, sess, hist, handles,
                   cleanups, audioSent>>

\* "if call_sid and call_sid in active_sessions: create_task(delayed_cleanup)"
Scheduled(c) ==
    IF c # None /\ active_sessions[c] # 0
    THEN [cleanups EXCEPT ![c] = @ + 1] ELSE cleanups

\* the finally block, to the await in OpenAIRealtimeHandler.close; with no
\* connection close() does nothing and the block goes on to its second half
Finally(s) ==
    /\ stream[s].pc = "finally"
    /\ hist' = [hist EXCEPT ![stream[s].sess].status =
                                 IF @ = "Closed" THEN @ ELSE "Finalizing"]
    /\ IF sess[stream[s].sess].ws # 0
       THEN /\ stream' = [stream EXCEPT ![s].pc = "closing",
                                        ![s].ws = sess[stream[s].sess].ws]
            /\ UNCHANGED cleanups
       ELSE /\ stream' = [stream EXCEPT ![s].pc = "done"]
            /\ cleanups' = Scheduled(stream[s].call_sid)
    /\ UNCHANGED <<plannerVars, cfg, callers, menu, budget, active_sessions, sess, handles, audioSent>>

\* ws.close() returned: the rest of the finally block
CloseDone(s) ==
    /\ stream[s].pc = "closing"
    /\ handles' = [handles EXCEPT ![stream[s].ws].state = "closed",
                                  ![stream[s].ws].closes = @ + 1]
    /\ cleanups' = Scheduled(stream[s].call_sid)
    /\ stream' = [stream EXCEPT ![s].pc = "done"]
    /\ UNCHANGED <<plannerVars, cfg, callers, menu, budget, active_sessions, sess, hist, audioSent>>

\* ws.close() raised: the exception leaves the finally block and the handler
CloseRaised(s) ==
    /\ stream[s].pc = "closing"
    /\ stream' = [stream EXCEPT ![s].pc = "done"]
    /\ UNCHANGED <<plannerVars, cfg, callers, menu, budget, active_sessions, sess, hist, handles,
                   cleanups, audioSent>>

\* "if not session.appointment_booked and session.lead_data.get('name')"
ShouldFinalize(session) ==
    ~session.appointment_booked /\ Truthy(session.lead_data.name)

\* a faulty variant: the entry is left in the registry
EvictedNever(c) == active_sessions

\* "del active_sessions[call_sid]"
Evicted(c) == [active_sessions EXCEPT ![c] = 0]

\* the last session constructed for c
LastSession(c) ==
    CHOOSE o \in 1..Len(sess) :
        sess[o].call_sid = c /\ \A p \in 1..Len(sess) : sess[p].call_sid = c => p <= o

\* a faulty variant: the task works on the session of its call, registered or not
CleanupTargetKept(c) == LastSession(c)

\* "if call_sid in active_sessions: session = active_sessions[call_sid]"
\* (0: the entry is gone)
CleanupTarget(c) == active_sessions[c]

\* the session of c that has been evicted: entries leave the registry by
\* delayed_cleanup alone
Gone(c) ==
    CHOOSE o \in 1..Len(sess) :
        /\ sess[o].call_sid = c /\ hist[o].closed
        /\ \A p \in 1..Len(sess) : (sess[p].call_sid = c /\ hist[p].closed) => p <= o

\* delayed_cleanup after its sleep: log_lead does not suspend, so the test,
\* the finalize record and the removal are one step
DelayedCleanup(c) ==
    /\ cleanups[c] > 0
    /\ cleanups' = [cleanups EXCEPT ![c] = @ - 1]
    /\ IF CleanupTarget(c) # 0
       THEN LET o == CleanupTarget(c) IN
            /\ hist' = [hist EXCEPT
                   ![o].finalizeRecords = IF ShouldFinalize(sess[o]) THEN @ + 1 ELSE @,
                   ![o].closed = TRUE,
                   ![o].closedBooked = sess[o].appointment_booked,
                   ![o].closedName = sess[o].lead_data.name,
                   ![o].finalizeRecord =
                       IF ShouldFinalize(sess[o])
                       THEN LeadRecord("finalize", sess[o].lead_data.name,
                                       sess[o].lead_data.phone, sess[o].lead_data.type)
                       ELSE @,
                   ![o].status = "Closed"]
            /\ active_sessions' = Evicted(c)
       ELSE /\ hist' = [hist EXCEPT ![Gone(c)].noops = @ + 1]
            /\ UNCHANGED active_sessions
    /\ UNCHANGED <<plannerVars, cfg, callers, menu, budget, sess, handles, stream, audioSent>>

(***************************************************************************)
(* The specifications.                                                     *)
(***************************************************************************)
PlannerIdle ==
    /\ pIn = [configured |-> FALSE, date |-> None, query |-> None, events |-> {},
              duration |-> DefaultDuration]
    /\ pOut = None
    /\ pPc = "idle"

Environment ==
    \/ \E c \in callers : IncomingCall(c)
    \/ \E s \in StreamIds : StreamNoStart(s)
    \/ \E s \in StreamIds, c \in callers : StreamStart(s, c)
    \/ \E s \in StreamIds : T2OMedia(s)
    \/ \E s \in StreamIds : T2OStop(s)
    \/ \E s \in StreamIds : AIClose(s)
    \/ \E s \in StreamIds : AIEventOther(s)
    \/ \E s \in StreamIds : ToolMalformed(s)
    \/ \E s \in StreamIds : ToolUnknown(s)
    \/ \E s \in StreamIds : ToolCheckAvailability(s)
    \/ \E s \in StreamIds : ToolBookAppointment(s)
    \/ \E s \in StreamIds : ToolLogLead(s)
    \/ \E s \in StreamIds : ToolSendSms(s)
    \/ \E s \in StreamIds : ToolWarmTransfer(s)
    \/ \E s \in StreamIds : ToolLogVoicemail(s)

ConnectStep(s) == ConnectRefused(s) \/ ConnectOpened(s)

InitStep(s) == ConnectInitFailed(s) \/ ConnectDone(s)

CloseStep(s) == CloseDone(s) \/ CloseRaised(s)

Internal ==
    \/ \E s \in StreamIds : ConnectStep(s)
    \/ \E s \in StreamIds : InitStep(s)
    \/ \E s \in StreamIds : O2TEnd(s)
    \/ \E s \in StreamIds : SmsDone(s)
    \/ \E s \in StreamIds : SendOutput(s)
    \/ \E s \in StreamIds : SendContinue(s)
    \/ \E s \in StreamIds : RelayDone(s)
    \/ \E s \in StreamIds : Finally(s)
    \/ \E s \in StreamIds : CloseStep(s)
    \/ \E c \in CallSids : DelayedCleanup(c)

NextSession == Environment \/ Internal

\* the session lifecycle: several streams on one call identifier, with every
\* service configured and one well-formed invocation of each kind
Init ==
    /\ PlannerIdle
    /\ InitSession({[calendar |-> TRUE, sheets |-> TRUE]}, {"CA1"}, PlainMenu,
                   [requests |-> MaxRequests, streams |-> MaxStreams,
                    frames |-> MaxFrames, events |-> MaxEvents, notices |-> 0])

Next == NextSession

Spec == Init /\ [][Next]_vars

\* every step the program takes by itself is eventually taken: a connection
\* attempt ends, a pending send_sms returns, the teardown runs, the cleanup
\* timer fires.  What the telephony side and the AI transport send is theirs.
Fairness ==
    /\ \A s \in StreamIds :
          /\ WF_vars(ConnectStep(s))
          /\ WF_vars(InitStep(s))
          /\ WF_vars(O2TEnd(s))
          /\ WF_vars(SmsDone(s))
          /\ WF_vars(SendOutput(s))
          /\ WF_vars(SendContinue(s))
          /\ WF_vars(RelayDone(s))
          /\ WF_vars(Finally(s))
          /\ WF_vars(CloseStep(s))
    /\ \A c \in CallSids : WF_vars(DelayedCleanup(c))

\* one stream on one call identifier
InitOneStream ==
    /\ PlannerIdle
    /\ InitSession({[calendar |-> TRUE, sheets |-> TRUE]}, {"CA1"}, PlainMenu,
                   [requests |-> 1, streams |-> 1, frames |-> 1, events |-> 1, notices |-> 0])

FairSpec == InitOneStream /\ [][Next]_vars /\ Fairness

\* the dispatcher: one stream, every configuration, every argument value
InitDispatch ==
    /\ PlannerIdle
    /\ InitSession(Configurations, {"CA1"}, FullMenu,
                   [requests |-> 1, streams |-> 1, frames |-> MaxFrames,
                    events |-> MaxCalls, notices |-> 0])

SpecDispatch == InitDispatch /\ [][Next]_vars

\* two calls at once, and one event from the AI transport
InitCalls ==
    /\ PlannerIdle
    /\ InitSession({[calendar |-> TRUE, sheets |-> TRUE]}, {"CA1", "CA2"}, PlainMenu,
                   [requests |-> 1, streams |-> 2, frames |-> 1, events |-> 1, notices |-> 0])

SpecCalls == InitCalls /\ [][Next]_vars


(***************************************************************************)
(* openai_to_twilio on the events that are no tool invocation, and the     *)
(* telephony socket.                                                       *)
(***************************************************************************)
MaxNotices == 2       \* events other than tool invocations the AI transport sends

\* start_data["start"]["streamSid"] of stream s
StreamSid(s) == <<"MZ", s>>

\* a faulty variant: the frame names the call, not the stream
MediaMsgOfCall(streamSid, audio_base64) ==
    [event |-> "media", streamSid |-> <<"CA", 1>>, payload |-> audio_base64]

\* media_msg
MediaMsg(streamSid, audio_base64) ==
    [event |-> "media", streamSid |-> streamSid, payload |-> audio_base64]

\* the f-string of the response.done branch
TransferTwiml == [say |-> "Connecting you to Mark now.", dial |-> "AGENT_PHONE"]

\* openai_to_twilio can be handed such an event
CanNotice(s) ==
    Receiving(s) /\ handles[stream[s].ws].state = "open" /\ budget.notices > 0

\* the event read: notices are told apart by how many were still to come
Notice(type) == [type |-> type, seq |-> budget.notices]

\* response.audio.delta: a non-empty delta is wrapped into a media frame with
\* the stream's streamSid and sent on the telephony socket; a closed socket
\* raises, which ends the loop
AIAudioDelta(s) ==
    /\ CanNotice(s)
    /\ budget' = Spend("notices")
    /\ \E audio_base64 \in menu.deltas :
          LET message == [type |-> "response.audio.delta", seq |-> budget.notices,
                          delta |-> audio_base64]
          IN stream' =
                IF ~Truthy(audio_base64)
                THEN [stream EXCEPT ![s].msg = message]
                ELSE IF stream[s].tel = "open"
                THEN [stream EXCEPT ![s].msg = message,
                         ![s].sent = Append(@, MediaMsg(StreamSid(s), audio_base64))]
                ELSE [stream EXCEPT ![s].msg = message, ![s].o2t = "done"]
    /\ UNCHANGED <<plannerVars, cfg, callers, menu, active_sessions, sess, hist, handles, cleanups,
                   audioSent>>

\* response.done: with transfer_requested set, the TwiML is built into a local
\* and a line is logged; nothing is sent
AIResponseDone(s) ==
    /\ CanNotice(s)
    /\ budget' = Spend("notices")
    /\ stream' =
          IF sess[stream[s].sess].transfer_requested
          THEN [stream EXCEPT ![s].msg = Notice("response.done"),
                              ![s].transfer_twiml = TransferTwiml,
                              ![s].logged = @ + 1]
          ELSE [stream EXCEPT ![s].msg = Notice("response.done")]
    /\ UNCHANGED <<plannerVars, cfg, callers, menu, active_sessions, sess, hist, handles, cleanups,
                   audioSent>>

\* input_audio_buffer.speech_started: pass
AISpeechStarted(s) ==
    /\ CanNotice(s)
    /\ budget' = Spend("notices")
    /\ stream' = [stream EXCEPT ![s].msg = Notice("input_audio_buffer.speech_started")]
    /\ UNCHANGED <<plannerVars, cfg, callers, menu, active_sessions, sess, hist, handles, cleanups,
                   audioSent>>

\* error: logger.error
AIError(s) ==
    /\ CanNotice(s)
    /\ budget' = Spend("notices")
    /\ stream' = [stream EXCEPT ![s].msg = Notice("error")]
    /\ UNCHANGED <<plannerVars, cfg, callers, menu, active_sessions, sess, hist, handles, cleanups,
                   audioSent>>

\* the telephony side drops the socket: the receive_text that twilio_to_openai
\* waits in raises, and every later send_text does
TelephonyDrop(s) ==
    /\ Relaying(s)
    /\ stream[s].tel = "open"
    /\ stream' = [stream EXCEPT ![s].tel = "closed",
                                ![s].t2o = IF @ = "run" THEN "done" ELSE @]
    /\ UNCHANGED <<plannerVars, cfg, callers, menu, budget, active_sessions, sess, hist, handles,
                   cleanups, audioSent>>

Notices ==
    \/ \E s \in StreamIds : AIAudioDelta(s)
    \/ \E s \in StreamIds : AIResponseDone(s)
    \/ \E s \in StreamIds : AISpeechStarted(s)
    \/ \E s \in StreamIds : AIError(s)
    \/ \E s \in StreamIds : TelephonyDrop(s)

NextRelay == Environment \/ Internal \/ Notices

\* the relay in detail: one stream, every kind of frame and event
InitRelay ==
    /\ PlannerIdle
    /\ InitSession({[calendar |-> TRUE, sheets |-> TRUE]}, {"CA1"}, RelayMenu,
                   [requests |-> 1, streams |-> 1, frames |-> 2, events |-> 1,
                    notices |-> MaxNotices])

SpecRelay == InitRelay /\ [][NextRelay]_vars

(***************************************************************************)
(* A collaborator that does not answer.  The calls to the sheet and to the *)
(* calendar are synchronous calls of their client libraries, made with no  *)
(* timeout of the program's own, from inside handle_tool_call.             *)
(***************************************************************************)
\* the invocations that start with a call to the sheet
SheetTools == {"log_lead", "log_voicemail"}

\* the invocations that start with a call to the calendar
CalendarTools == {"check_calendar_availability", "book_appointment"}

\* handle_tool_call has not returned to the loop of stream s
InDispatcher(s) == Relaying(s) /\ stream[s].o2t \in {"sms", "store"}

\* an invocation whose first call to the sheet or the calendar is never
\* answered: handle_tool_call stays in that call, before any assignment to the
\* session.  The call does not yield to the event loop either, so the other
\* coroutines are held up with it; they are left free here, which changes
\* nothing for this loop.
ToolStoreSilent(s) ==
    /\ CanReceive(s)
    /\ budget' = Spend("events")
    /\ \E op \in SheetTools \cup CalendarTools :
          /\ op \in SheetTools => cfg.sheets
          /\ op \in CalendarTools => cfg.calendar
          /\ stream' = [stream EXCEPT ![s].o2t = "store",
                                      ![s].tool = Invocation(op, stream[s].sess),
                                      ![s].fwd = 0]
    /\ UNCHANGED <<plannerVars, cfg, callers, menu, active_sessions, sess, hist, handles, cleanups,
                   audioSent>>

Silent == \E s \in StreamIds : ToolStoreSilent(s)

NextSilent == Environment \/ Internal \/ Silent

\* one stream; every step of the program's own is eventually taken, and the
\* notifier answers or its client gives up, but the stores need not answer
FairSpecSilent == InitOneStream /\ [][NextSilent]_vars /\ Fairness
(***************************************************************************)
(* The planner on its own: one call per drawn input.                       *)
(***************************************************************************)
InitPlanner ==
    /\ pIn \in PlannerInputs
    /\ pOut = None
    /\ pPc = "call"
    /\ InitSession({[calendar |-> FALSE, sheets |-> FALSE]}, {}, PlainMenu,
                   [requests |-> 0, streams |-> 0, frames |-> 0, events |-> 0, notices |-> 0])

\* one call of the planner with the drawn inputs
PlannerCall ==
    /\ pPc = "call"
    /\ pOut' = check_calendar_availability(pIn)
    /\ pPc' = "done"
    /\ UNCHANGED <<pIn, sessionVars>>

\* the next call, for the same day with another duration
PlannerAgain ==
    /\ pPc = "done"
    /\ \E d \in Durations : pIn' = [pIn EXCEPT !.duration = d]
    /\ pOut' = None
    /\ pPc' = "call"
    /\ UNCHANGED sessionVars

NextPlanner == PlannerCall \/ PlannerAgain

SpecPlanner == InitPlanner /\ [][NextPlanner]_vars

(***************************************************************************)
(* Reading a label back, for the properties below.                         *)
(***************************************************************************)
Unpadded12(t) ==
    (IF Hour12(t \div 60) < 10 THEN Digit[Hour12(t \div 60) + 1] ELSE TwoDigits(Hour12(t \div 60)))
    \o ":" \o TwoDigits(t % 60) \o " " \o Meridiem(t \div 60)

LabelTimes == {h * 60 : h \in 0..23}

IsLabel12(s) == \E t \in LabelTimes : s = Strftime12(t) \/ s = Unpadded12(t)

TimeOf(s) == CHOOSE t \in LabelTimes : s = Strftime12(t) \/ s = Unpadded12(t)

PlannerReturned == pPc = "done"

CalendarUnavailable(in) ==
    ~in.configured \/ in.date = "not-a-date" \/ in.query = "raises"

\* C6: whatever the duration and the booked set, the planner returns at most
\* five slots, each a 12-hour label with AM/PM naming a time in [09:00, 20:00),
\* in strictly ascending order of time.
C6_SlotsBoundedAscending ==
    PlannerReturned =>
        /\ ~pOut.raised
        /\ Len(pOut.value) <= 5
        /\ \A i \in 1..Len(pOut.value) :
              /\ IsLabel12(pOut.value[i])
              /\ TimeOf(pOut.value[i]) >= 9 * 60
              /\ TimeOf(pOut.value[i]) < 20 * 60
        /\ \A i, j \in 1..Len(pOut.value) :
              i < j => TimeOf(pOut.value[i]) < TimeOf(pOut.value[j])

\* C6's case: a computed answer that was cut to five, with a booked hour skipped
C6_Witness ==
    /\ PlannerReturned
    /\ ~CalendarUnavailable(pIn)
    /\ pIn.duration = 60
    /\ TimedEvent(9, 30) \in pIn.events
    /\ Len(pOut.value) = 5
    /\ pOut.value[1] = "10:00 AM"

\* C7: when the calendar cannot be asked (not configured, the query or the
\* date parse raises), the planner returns the same three fallback slots
\* whatever the duration and the booked set, and raises nothing.
C7_FallbackOnFailure ==
    (PlannerReturned /\ CalendarUnavailable(pIn)) =>
        /\ ~pOut.raised
        /\ pOut.value = <<"10:00 AM", "2:00 PM", "4:00 PM">>

\* C7's case: the query raised on a busy day, asked with a short duration
C7_Witness ==
    /\ PlannerReturned
    /\ pIn.configured
    /\ pIn.query = "raises"
    /\ pIn.duration = 30
    /\ pIn.events = BusyDay(10, 30)
    /\ pOut.value = FallbackSlots


\* the reference of C23, written from its statement: the labels of the hourly
\* candidates 09:00 .. 19:00
ReferenceLabels ==
    <<"09:00 AM", "10:00 AM", "11:00 AM", "12:00 PM", "01:00 PM", "02:00 PM",
      "03:00 PM", "04:00 PM", "05:00 PM", "06:00 PM", "07:00 PM">>

\* the candidates the reference accepts
ReferenceAccepted(in) ==
    {h \in 9..19 :
        ~ \E b \in in.events :
             /\ b.kind = "timed"
             /\ b.hour = h
             /\ (IF b.minute < 0 THEN -b.minute ELSE b.minute) < in.duration}

\* C23: when the calendar query succeeds, the planner returns the first five,
\* in ascending order, of the hourly candidates 09:00 .. 19:00 that no booked
\* start of the same hour is closer to, in minutes, than the duration; for an
\* empty booked set that is 09:00 AM, 10:00 AM, 11:00 AM, 12:00 PM, 01:00 PM,
\* and a booked start of another hour rejects nothing.
C23_PlannerEqualsReference ==
    (PlannerReturned /\ ~CalendarUnavailable(pIn)) =>
        LET acc == ReferenceAccepted(pIn)
            n == Cardinality(acc)
        IN /\ ~pOut.raised
           /\ Len(pOut.value) = (IF n < 5 THEN n ELSE 5)
           /\ \A h \in acc :
                 LET i == Cardinality({g \in acc : g < h}) + 1
                 IN i <= 5 => pOut.value[i] = ReferenceLabels[h - 8]
           /\ BookedSlots(pIn.events) = {} =>
                 pOut.value = <<"09:00 AM", "10:00 AM", "11:00 AM", "12:00 PM", "01:00 PM">>

\* C23's case: a 90-minute request on a day whose only bookings start at
\* 10:00 and 10:30: 09:00 is offered although 10:00 is 60 minutes away, and
\* 10:00 alone is rejected
C23_Witness ==
    /\ PlannerReturned
    /\ ~CalendarUnavailable(pIn)
    /\ pIn.duration = 90
    /\ pIn.events = {TimedEvent(10, 0), TimedEvent(10, 30)}
    /\ pOut.value = <<"09:00 AM", "11:00 AM", "12:00 PM", "01:00 PM", "02:00 PM">>
(***************************************************************************)
(* The session claims.                                                     *)
(***************************************************************************)
Objects == 1..Len(sess)

\* the invocations that have returned: their result is being sent back
ReturnedCalls(op) ==
    {s \in StreamIds : Relaying(s) /\ stream[s].o2t \in {"out", "cont"}
                       /\ stream[s].tool.op = op}

\* the invocations in progress, suspended in send_sms or returned
PendingCalls(op) ==
    {s \in StreamIds : ToolPending(s) /\ stream[s].tool.op = op}

\* C1: a session evicted by delayed_cleanup has exactly one finalize record
\* when appointment_booked was false and the name non-empty at that moment,
\* and none otherwise; a session not evicted has none, however many tool
\* invocations, streams and cleanup tasks its call identifier has had.
C1_FinalizeOnClose ==
    \A o \in Objects :
        hist[o].finalizeRecords =
            IF hist[o].closed /\ ~hist[o].closedBooked /\ Truthy(hist[o].closedName)
            THEN 1 ELSE 0

\* C1's case: a named, unbooked session that two streams attached to, both torn
\* down, evicted with its one record and no cleanup task left
C1_Witness ==
    \E o \in Objects :
        /\ hist[o].closed /\ hist[o].finalizeRecords = 1
        /\ hist[o].finalizeRecord.name = "J. Doe"
        /\ \A s \in StreamIds : stream[s].pc = "done" /\ stream[s].sess = o
        /\ cleanups["CA1"] = 0

\* C2: a book_appointment whose calendar call raises returns success = false,
\* leaves appointment_booked as it was and makes no notifier call.
C2_FailedBookingIsInert ==
    \A s \in PendingCalls("book_appointment") :
        stream[s].tool.outcome = "raises" =>
            /\ stream[s].tool.result.success = FALSE
            /\ stream[s].tool.bookedAfter = stream[s].tool.bookedBefore
            /\ sess[stream[s].tool.obj].appointment_booked = stream[s].tool.bookedBefore
            /\ stream[s].tool.sms = 0
            /\ stream[s].o2t # "sms"

\* C2's case: a failed booking, with a phone to confirm to, in a session that
\* was not booked
C2_Witness ==
    \E s \in ReturnedCalls("book_appointment") :
        /\ stream[s].tool.outcome = "raises"
        /\ stream[s].tool.args.phone = "+15145550000"
        /\ ~stream[s].tool.bookedBefore
        /\ ~sess[stream[s].tool.obj].appointment_booked

\* C3: a book_appointment whose calendar call succeeds sets appointment_booked
\* and makes exactly one notifier call, whose message carries the purpose,
\* date, time and location of the arguments, whatever the arguments are.
C3_BookingConfirmsOnce ==
    \A s \in ReturnedCalls("book_appointment") :
        stream[s].tool.outcome \in {"mock", "inserted", "row_raises"} =>
            /\ sess[stream[s].tool.obj].appointment_booked
            /\ stream[s].tool.sms = 1
            /\ stream[s].tool.msg.body.purpose = stream[s].tool.args.purpose
            /\ stream[s].tool.msg.body.date = stream[s].tool.args.date
            /\ stream[s].tool.msg.body.time = stream[s].tool.args.time
            /\ stream[s].tool.msg.body.location = stream[s].tool.args.location

\* C4: after n >= 1 warm_transfer invocations of a session, transfer_requested
\* is true and n transfer records have been handed to log_lead; each invocation
\* returns the transfer instruction carrying its own context summary.
C4_WarmTransferIdempotent ==
    /\ \A o \in Objects :
          /\ hist[o].transferRecords = hist[o].warmCalls
          /\ hist[o].warmCalls >= 1 => sess[o].transfer_requested
    /\ \A s \in ReturnedCalls("warm_transfer") :
          /\ stream[s].tool.result.status = "transfer_initiated"
          /\ stream[s].tool.result.message =
                 "Connecting you to Mark Esposito now. Please hold."
          /\ stream[s].tool.result.context = stream[s].tool.args.context_summary
          /\ stream[s].tool.lead.kind = "transfer"

\* C4's case: the second warm_transfer of a session, with another summary
C4_Witness ==
    \E s \in ReturnedCalls("warm_transfer") :
        /\ hist[stream[s].tool.obj].warmCalls = 2
        /\ hist[stream[s].tool.obj].transferRecords = 2
        /\ stream[s].tool.args.context_summary = "S2"
        /\ stream[s].tool.result.context = "S2"

\* the session's current connection is open
AudioPathOpen(s) ==
    /\ sess[stream[s].sess].ws # 0
    /\ handles[sess[stream[s].sess].ws].state = "open"

C8_EveryEntryEvicted ==
    \A c \in CallSids : (active_sessions[c] # 0) ~> (active_sessions[c] = 0)

\* C9: once either relay loop of a stream has ended, the stream's teardown
\* eventually starts.
C9_TeardownAfterEitherLoop ==
    \A s \in StreamIds :
        (Relaying(s) /\ (stream[s].t2o = "done" \/ stream[s].o2t = "done"))
            ~> (stream[s].pc \in {"finally", "closing", "done"})

\* C10: no relay is attached to a session by a stream that started after the
\* session had left Streaming for Finalizing.
C10_SingleUse ==
    \A s \in StreamIds : Relaying(s) => ~stream[s].reattached

\* an event is taken from the AI transport in this step
EventTaken == budget.events' = budget.events - 1

\* C11: within one openai_to_twilio loop, no event is taken while a tool
\* invocation is unanswered; the function_call_output sent for an invocation
\* carries that invocation's call_id and handle_tool_call's result, and the
\* invocation is over, with the loop back at the next event, only by the
\* response.create that follows that output.
C11_OutputThenContinueInOrder ==
    [][/\ EventTaken => \A s \in StreamIds : ~ToolPending(s)
       /\ \A s \in StreamIds :
             (stream[s].o2t = "out" /\ stream'[s].o2t = "cont") =>
                 /\ stream'[s].out.call_id = stream[s].tool.call_id
                 /\ stream'[s].out.output = stream[s].tool.result
                 /\ stream'[s].tool = stream[s].tool
       /\ \A s \in StreamIds :
             (ToolPending(s) /\ stream'[s].pc = "relay" /\ stream'[s].o2t = "recv") =>
                 /\ stream[s].o2t = "cont"
                 /\ stream[s].out.call_id = stream[s].tool.call_id
                 /\ stream[s].out.output = stream[s].tool.result]_vars

\* C11's case: the output of the second invocation of a loop has been sent,
\* with its own call_id and result, and response.create is next
C11_Witness ==
    \E s \in StreamIds :
        /\ Relaying(s) /\ stream[s].o2t = "cont"
        /\ stream[s].tool.op = "warm_transfer"
        /\ stream[s].tool.call_id = MaxCalls - 1
        /\ stream[s].out = [call_id |-> MaxCalls - 1, output |-> stream[s].tool.result]
        /\ stream[s].out.output.context = "S2"

\* C12: taking an event, a tool invocation of any kind and with any arguments
\* included, never ends the openai_to_twilio loop that takes it.
C12_DispatcherNeverEndsLoop ==
    [][EventTaken => \A s \in StreamIds : Receiving(s) => stream'[s].o2t # "done"]_vars

\* every stream that attached to session o has finished its teardown
TornDown(o) ==
    /\ \E s \in StreamIds : stream[s].sess = o
    /\ \A s \in StreamIds : stream[s].sess = o => stream[s].pc = "done"

\* C13: no connection is closed by the program more than once, and once a
\* session is finalized (torn down by every stream that attached to it, and
\* evicted) every connection opened for it has been closed by the program.
C13_HandlesClosedOnce ==
    \A h \in 1..Len(handles) :
        /\ handles[h].closes <= 1
        /\ (TornDown(handles[h].owner) /\ hist[handles[h].owner].closed)
               => handles[h].closes = 1

\* C14: transfer_requested and appointment_booked of a session object are
\* never reset: no step takes either from true to false, whatever tool is
\* invoked, whichever stream re-attaches and through teardown and cleanup.
C14_FlagsMonotonic ==
    [][\A o \in Objects :
          /\ sess[o].transfer_requested => sess'[o].transfer_requested
          /\ sess[o].appointment_booked => sess'[o].appointment_booked]_vars

\* C14's case: a session with both flags set whose stream has torn down
C14_Witness ==
    \E o \in Objects :
        /\ sess[o].transfer_requested /\ sess[o].appointment_booked
        /\ hist[o].status = "Finalizing"
        /\ hist[o].warmCalls = 1

\* the record handle_tool_call has handed to log_lead in the invocation of s
LoggedBy(s) == stream[s].tool.lead

\* C15: every record handed to the record store for a session, by log_lead,
\* warm_transfer, log_voicemail or the finalize log, has a non-empty phone.
C15_RecordsHavePhone ==
    /\ \A s \in StreamIds :
          (ToolPending(s) /\ LoggedBy(s).kind # None) => Truthy(LoggedBy(s).phone)
    /\ \A o \in Objects :
          hist[o].finalizeRecord.kind # None => Truthy(hist[o].finalizeRecord.phone)

\* stream s takes a log_lead invocation in this step
LogLeadStep(s) ==
    /\ Receiving(s)
    /\ stream'[s].o2t = "out"
    /\ stream'[s].tool.op = "log_lead"

\* C16: a log_lead invocation leaves each of the seven fields at the supplied
\* value when that is non-empty and at the stored value otherwise, touches
\* nothing else of the Lead Record, and returns success with lead_id the
\* session's call identifier; no other step changes a Lead Record, so each
\* field is the most recent non-empty value supplied for it, or its initial one.
C16_MergeNonEmptyOnly ==
    [][/\ \A s \in StreamIds :
             LogLeadStep(s) =>
                 LET o == stream[s].sess
                     args == stream'[s].tool.args
                 IN /\ \A k \in {"name", "phone", "email", "type", "area_interest",
                                 "budget", "timeline"} :
                           sess'[o].lead_data[k] =
                               IF args[k] = None \/ args[k] = ""
                               THEN sess[o].lead_data[k] ELSE args[k]
                    /\ sess'[o].lead_data.notes = sess[o].lead_data.notes
                    /\ stream'[s].tool.result.success = TRUE
                    /\ stream'[s].tool.result.lead_id = sess[o].call_sid
       /\ \A o \in Objects :
             sess'[o].lead_data # sess[o].lead_data =>
                 \E s \in StreamIds : LogLeadStep(s) /\ stream[s].sess = o]_vars

\* C16's case: the third log_lead of a session, with an empty name and a new
\* phone: the stored name is kept and the caller's number is overwritten
C16_Witness ==
    \E s \in ReturnedCalls("log_lead") :
        /\ stream[s].tool.call_id = MaxCalls - 2
        /\ stream[s].tool.args.name = ""
        /\ stream[s].tool.args.phone = "+15145550009"
        /\ sess[stream[s].sess].lead_data.name = "A. Roe"
        /\ sess[stream[s].sess].lead_data.phone = "+15145550009"
        /\ stream[s].tool.result.lead_id = "CA1"

\* C17: a book_appointment that returns success = false has created no calendar
\* event, written no appointment row, made no notifier call and left
\* appointment_booked as it was.
C17_FailedBookingHasNoEffect ==
    \A s \in ReturnedCalls("book_appointment") :
        ~stream[s].tool.result.success =>
            /\ stream[s].tool.events = 0
            /\ stream[s].tool.rows = 0
            /\ stream[s].tool.sms = 0
            /\ stream[s].tool.bookedAfter = stream[s].tool.bookedBefore

\* the call identifiers this step is executed for: those of the streams that
\* move, of the cleanup task that fires and of the registry entries that change
StepCalls ==
    {stream'[s].call_sid : s \in {r \in StreamIds : stream'[r] # stream[r]}}
        \cup {c \in CallSids : cleanups'[c] # cleanups[c]
                               \/ active_sessions'[c] # active_sessions[c]}

\* the step changes the Lead Record, a flag or the connection of session o, or
\* closes a connection opened for it
Touched(o) ==
    \/ sess'[o] # sess[o]
    \/ \E h \in 1..Len(handles) :
          handles[h].owner = o /\ handles'[h].closes # handles[h].closes

\* C18: every stream works on a session of its own call identifier, and a step
\* that changes the Lead Record, the flags or the connection of a session is
\* executed for that session's call identifier and no other.
C18_SessionsIsolated ==
    /\ [](\A s \in StreamIds :
             stream[s].sess # 0 => sess[stream[s].sess].call_sid = stream[s].call_sid)
    /\ [][\A o \in Objects : Touched(o) => StepCalls = {sess[o].call_sid}]_vars

\* C18's case: two calls relaying at once; the session of one has been booked
\* by a tool invocation and the session of the other is as it was created
C18_Witness ==
    \E s, r \in StreamIds :
        /\ Relaying(s) /\ Relaying(r)
        /\ stream[s].call_sid = "CA1" /\ stream[r].call_sid = "CA2"
        /\ sess[stream[s].sess].appointment_booked
        /\ sess[stream[s].sess].ws # sess[stream[r].sess].ws
        /\ sess[stream[r].sess] =
               [NewSession("CA2") EXCEPT !.lead_data.phone = CallerPhone("CA2"),
                                         !.ws = sess[stream[r].sess].ws]

\* C19: the session a relay is streaming on is the entry of the registry under
\* the stream's call identifier.
C19_StreamingSessionIsRegistered ==
    \A s \in StreamIds :
        Relaying(s) => active_sessions[stream[s].call_sid] = stream[s].sess

\* a delayed_cleanup task of c fires in this step
CleanupFires(c) == cleanups'[c] = cleanups[c] - 1

\* C20: a delayed_cleanup that fires when the entry of its call identifier is
\* gone hands no record to log_lead, removes nothing from the registry and
\* changes no session.
C20_LateCleanupIsNoOp ==
    [][\A c \in CallSids :
          (CleanupFires(c) /\ active_sessions[c] = 0) =>
              /\ active_sessions' = active_sessions
              /\ sess' = sess
              /\ \A o \in Objects :
                    /\ hist'[o].finalizeRecords = hist[o].finalizeRecords
                    /\ hist'[o].finalizeRecord = hist[o].finalizeRecord
                    /\ hist'[o].transferRecords = hist[o].transferRecords
                    /\ hist'[o].closed = hist[o].closed
                    /\ hist'[o].status = hist[o].status]_vars

\* C20's case: two streams of CA1 scheduled a cleanup each; the first evicted
\* the session with its finalize record and the second found the entry gone
C20_Witness ==
    \E o \in Objects :
        /\ sess[o].call_sid = "CA1"
        /\ hist[o].closed /\ hist[o].noops = 1
        /\ hist[o].finalizeRecords = 1
        /\ active_sessions["CA1"] = 0
        /\ cleanups["CA1"] = 0


\* handle_tool_call returns to the loop of stream s in this step, for a name
\* that is none of the six
UnknownStep(s) ==
    /\ Receiving(s)
    /\ stream'[s].o2t = "out"
    /\ stream'[s].tool.op = "unknown"

\* C21: a tool invocation whose name is none of the six returns None, calls
\* neither the sheet, the calendar nor the notifier, and leaves lead_data,
\* appointment_booked and transfer_requested of every session as they were.
C21_UnknownToolIsInert ==
    [][\A s \in StreamIds :
          UnknownStep(s) =>
              /\ stream'[s].tool.result = [kind |-> "None"]
              /\ stream'[s].tool.sms = 0
              /\ stream'[s].tool.events = 0
              /\ stream'[s].tool.rows = 0
              /\ stream'[s].tool.lead = NoLead
              /\ sess' = sess
              /\ hist' = hist
              /\ handles' = handles
              /\ active_sessions' = active_sessions]_vars

\* C21's case: an unknown name arrives in a session that already holds a
\* logged name and a requested transfer, and its None has been sent back
C21_Witness ==
    \E s \in ReturnedCalls("unknown") :
        /\ stream[s].tool.result = [kind |-> "None"]
        /\ stream[s].o2t = "cont"
        /\ stream[s].out.output = [kind |-> "None"]
        /\ sess[stream[s].sess].transfer_requested
        /\ sess[stream[s].sess].lead_data.name = "A. Roe"

\* C22: the slots a check_calendar_availability invocation returns are the
\* planner's for the invocation's date and the duration_minutes it supplied
\* (60 when it supplied none).
C22_SlotsForRequestedDuration ==
    \A s \in ReturnedCalls("check_calendar_availability") :
        stream[s].tool.result.available_slots
            = check_calendar_availability(stream[s].tool.args).value

\* handle_tool_call returns a warm_transfer to the loop of stream s in this step
WarmTransferStep(s) ==
    /\ Receiving(s)
    /\ stream'[s].o2t = "out"
    /\ stream'[s].tool.op = "warm_transfer"

\* C25: transfer_requested of a session becomes true only in the step in which
\* the loop of a stream attached to that session dispatches a warm_transfer,
\* and only while the session is Streaming: never while it is Created,
\* Finalizing or Closed.
C25_TransferSetOnlyWhileStreaming ==
    [][\A o \in Objects :
          (~sess[o].transfer_requested /\ sess'[o].transfer_requested) =>
              /\ \E s \in StreamIds : WarmTransferStep(s) /\ stream[s].sess = o
              /\ hist[o].status = "Streaming"]_vars

\* the await of openai_handler.close() in the finally block of stream s is
\* over in this step, by return or by exception
CloseOver(s) == stream[s].pc = "closing" /\ stream'[s].pc = "done"

\* C27: nothing in teardown or cleanup keeps the steps after it from running:
\* when the close of the AI connection is over, however it ended, the
\* delayed_cleanup of a registered call identifier is scheduled, and a cleanup
\* that fires on a registered entry removes it.
C27_TeardownNeverRaises ==
    [][/\ \A s \in StreamIds :
             (CloseOver(s) /\ active_sessions[stream[s].call_sid] # 0) =>
                 cleanups'[stream[s].call_sid] = cleanups[stream[s].call_sid] + 1
       /\ \A c \in CallSids :
             (CleanupFires(c) /\ active_sessions[c] # 0) => active_sessions'[c] = 0]_vars

\* connect() raised for stream s: the handler is in, or past, its finally
\* block and neither loop was ever started
ConnectFailed(s) ==
    /\ stream[s].call_sid # None
    /\ stream[s].pc \in {"finally", "closing", "done"}
    /\ stream[s].o2t = "-"

\* the call identifier of stream s has no entry in the registry
EvictedFor(s) == stream[s].call_sid # None /\ active_sessions[stream[s].call_sid] = 0

\* C30: a stream whose connect() raised never relays, and its teardown
\* schedules the cleanup that later finalizes and evicts the session: the
\* entry of its call identifier is eventually removed from the registry.
C30_FailedConnectIsCleanedUp ==
    \A s \in StreamIds : ConnectFailed(s) ~> EvictedFor(s)

\* C26: handle_tool_call always returns to the loop: an invocation waiting for
\* the sheet, the calendar or the notifier is eventually over, whether or not
\* the collaborator answers.
C26_DispatcherGivesUp ==
    \A s \in StreamIds : InDispatcher(s) ~> ~InDispatcher(s)

(***************************************************************************)
(* The relay's two loops.                                                  *)
(***************************************************************************)
\* twilio_to_openai of stream s reads a media frame in this step
MediaStep(s) == stream'[s].frame # stream[s].frame

\* the connections that exist before the step
Connections == 1..Len(handles)

\* payloads that are the output of a base64 encoder
EncoderOutputs == {<<"Q", "U", "J", "D">>, <<"/", "/", "8", "=">>}

\* payloads that b64decode accepts: the encoder's outputs, and "QUJ=", whose
\* last character carries two bits that no byte takes
Decodable == EncoderOutputs \cup {<<"Q", "U", "J", "=">>}

NoticeStep(s) == stream'[s].msg # stream[s].msg

\* C29: for each response.audio.delta with a non-empty delta, the loop sends,
\* on its open telephony socket, exactly one media frame, after those it sent
\* before, with the streamSid of this stream's start frame and the delta as it
\* came; speech_started and error events send no frame and leave the loop
\* waiting for the next event; no other step sends a frame.
C29_DeltaBecomesOneFrame ==
    [][/\ \A s \in StreamIds :
             NoticeStep(s) =>
                 LET m == stream'[s].msg
                 IN IF m.type = "response.audio.delta"
                    THEN IF m.delta = ""
                         THEN stream'[s].sent = stream[s].sent
                         ELSE IF stream[s].tel = "open"
                         THEN /\ stream'[s].sent =
                                    Append(stream[s].sent,
                                           [event |-> "media", streamSid |-> <<"MZ", s>>,
                                            payload |-> m.delta])
                              /\ stream'[s].o2t = "recv"
                         ELSE /\ stream'[s].sent = stream[s].sent
                              /\ stream'[s].o2t = "done"
                    ELSE /\ stream'[s].sent = stream[s].sent
                         /\ m.type \in {"input_audio_buffer.speech_started", "error"}
                               => stream'[s].o2t = "recv"
       /\ \A s \in StreamIds :
             stream'[s].sent # stream[s].sent => NoticeStep(s)]_vars

\* C29's case: two deltas became two frames of stream 1, in the order they
\* came, and the loop waits for the next event
C29_Witness ==
    \E s \in StreamIds :
        /\ Relaying(s)
        /\ stream[s].o2t = "recv"
        /\ stream[s].msg.seq = 1
        /\ stream[s].msg.type = "response.audio.delta"
        /\ stream[s].sent =
              <<[event |-> "media", streamSid |-> <<"MZ", 1>>, payload |-> "QUJD"],
                [event |-> "media", streamSid |-> <<"MZ", 1>>, payload |-> "QUI="]>>

\* openai_to_twilio of stream s handles a response.done in this step
TurnComplete(s) == NoticeStep(s) /\ stream'[s].msg.type = "response.done"

\* C24: each response.done handled while transfer_requested is set emits a
\* transfer instruction (the one thing the handler could emit on: its
\* telephony socket) and logs the request, every time and not only the first;
\* a response.done handled while it is unset emits and logs nothing.
C24_TransferSignalledOnTurnComplete ==
    [][\A s \in StreamIds :
          TurnComplete(s) =>
              IF sess[stream[s].sess].transfer_requested
              THEN /\ stream'[s].logged = stream[s].logged + 1
                   /\ Len(stream'[s].sent) = Len(stream[s].sent) + 1
              ELSE /\ stream'[s].logged = stream[s].logged
                   /\ stream'[s].sent = stream[s].sent]_vars
====
